---- MODULE Spec2Model ----
(***************************************************************************)
(* State-machine model of three programs of the repository:                 *)
(*   RDE/data/SDToolbox/Python3/demo/demo_ShockTube.py, the shock-tube P-u  *)
(*   matching script (specification Spec),                                  *)
(*   src/physics/python_scripts/sdt_bridge.py, the JSON bridge              *)
(*   (specification BridgeSpec), and                                        *)
(*   RDE/data/SDToolbox/Python3/demo/demo_CJstate_isentrope.py, the march   *)
(*   along the isentrope of the CJ state (specification IsentropeSpec).     *)
(* Each specification runs one program and leaves the variables of the      *)
(* others at their initial values.                                          *)
(*                                                                          *)
(* Numbers.  The script computes in floating point; the model computes in   *)
(* fixed point on integers:                                                 *)
(*   velocities and sound speeds in 1/VUnit m/s (cm/s),                     *)
(*   densities in 1/DUnit kg/m3,                                            *)
(*   pressures in Pa, pressure ratios P/P1 in 1/RUnit (hundredths),         *)
(* and every float division is a floor division.                            *)
(*                                                                          *)
(* Oracle.  Cantera and sdtoolbox (ct.Solution, PostShock_fr, PostShock_eq, *)
(* CJspeed, soundspeed_fr, soundspeed_eq, equilibrate) are outside the      *)
(* repository.  Each call returns a gas state drawn from a small set or     *)
(* raises; the answers of the first run are recorded in oracleLog and       *)
(* replayed in the second run (a deterministic oracle).                     *)
(*                                                                          *)
(* Two runs.  The script is module-level code: a second execution in the    *)
(* same interpreter namespace starts with every global of the first run     *)
(* still bound.  Rerun models that second execution.                        *)
(***************************************************************************)
EXTENDS Integers, Sequences, FiniteSets, TLC

VARIABLES
    run,          \* 1 or 2: which execution of the script
    pc,           \* position in the script
    error,        \* exception that ended the run, or "none"
    oracleCalls,  \* oracle answers consumed by this run
    oracleLog,    \* the answers of run 1, in call order
    result,       \* the report of this run (lines 181-253), or NoResult
    result1,      \* the report of run 1, kept for comparison
    error1,       \* the error of run 1, kept for comparison
    CASE_DRIVER, CASE_DRIVEN, P_driver,
    driven_gas,   \* the gas object of the driven section (line 56)
    shocked_gas,  \* the gas object returned by the last post-shock call
    rho1, a1,
    iU,           \* iterations of the sweep loop (line 70) completed
    Us, P2, T2, rho2, a2, u2,
    EQ_EXP, rho4, cj_speed, driver_gas, P4, T4, S4, vv,
    P3, T3, rho3, a3, u3,
    \* sdt_bridge.py
    CANTERA_AVAILABLE,  \* line 38/40: whether the imports succeeded
    calculation_count,  \* SDTBridge.calculation_count
    error_count,        \* SDTBridge.error_count
    calls,              \* process_request calls made on the bridge by its user
    request,            \* the argument of the last of those calls, or NoRequest
    response,           \* what the last of those calls returned, or NoResponse
    raised,             \* the exception the last of those calls let escape
    mainPc,             \* "start" or "exited": the bridge run as a process
    stdin,              \* what main read from standard input, or NoInput
    stdout,             \* the responses printed by main
    exitStatus,         \* the status main ended with (NoStatus before exit)
    invocations,        \* executions of process_request on the bridge so far
    failures,           \* those that did not end with a success response
    isentrope           \* demo_CJstate_isentrope.py: its position (pc), the
                        \* exception that ended it (error) and its globals
                        \* i, vv, V, P, D, a, u, T, nfinal, P3, a3, V3, T3

cfgVars == <<CASE_DRIVER, CASE_DRIVEN, P_driver>>
handleVars == <<driven_gas, shocked_gas>>
drivenVars == <<rho1, a1, iU>>
shockVars == <<Us, P2, T2, rho2, a2, u2>>
driverVars == <<EQ_EXP, rho4, cj_speed, driver_gas, P4, T4, S4, vv>>
expVars == <<P3, T3, rho3, a3, u3>>
priorVars == <<result1, error1>>
bridgeVars == <<CANTERA_AVAILABLE, calculation_count, error_count, calls,
                request, response, raised, mainPc, stdin, stdout, exitStatus,
                invocations, failures>>
scriptVars == <<run, pc, error, oracleCalls, oracleLog, result, priorVars,
          cfgVars, handleVars, drivenVars, shockVars, driverVars, expVars>>
isentropeVars == <<isentrope>>
vars == <<scriptVars, bridgeVars, isentropeVars>>

(***************************************************************************)
(* Bounds and scales                                                        *)
(***************************************************************************)
\* The march loop has no bound in the script; the model explores it this far.
MaxMarch == 3

VUnit == 100
DUnit == 10
RUnit == 100
\* 1/rho in fixed point
VVScale == 1000000

(***************************************************************************)
(* Script literals                                                          *)
(***************************************************************************)
P1 == 1200
T1 == 300
T_driver == 300
\* line 87: P_driver = 3e6, a driver pressure above P1; the model takes the
\* literal at the scale of its oracle answers (P/P1 up to 3), and also the
\* boundary value P_driver = P1
DriverPressures == {P1, 3 * P1}
\* line 65: Ustep = 25 (m/s)
Ustep == 25 * VUnit
\* line 170: pmin = 1.01
pmin == 101

(***************************************************************************)
(* Helpers                                                                  *)
(***************************************************************************)
Last(s) == s[Len(s)]
Abs(x) == IF x < 0 THEN -x ELSE x
Range(s) == {s[i] : i \in 1..Len(s)}
SetMax(S) == CHOOSE x \in S : \A y \in S : y <= x
\* float division n/d in hundredths; numpy gives inf or nan for d = 0
Quot(n, d) ==
    IF d = 0 THEN [finite |-> FALSE, v |-> 0]
    ELSE IF d < 0 THEN [finite |-> TRUE, v |-> ((-n) * RUnit) \div (-d)]
    ELSE [finite |-> TRUE, v |-> (n * RUnit) \div d]

(***************************************************************************)
(* Gas states answered by the oracle                                        *)
(***************************************************************************)
Gas(p, t, r, fr, eq, s) ==
    [ok |-> TRUE, P |-> p, T |-> t, rho |-> r, afr |-> fr, aeq |-> eq, s |-> s]
\* the call raised (non-convergence, CanteraError)
FailGas == [ok |-> FALSE, P |-> 0, T |-> 0, rho |-> 0, afr |-> 0, aeq |-> 0, s |-> 0]
FailCJ == [ok |-> FALSE, rho4 |-> 0, cj_speed |-> 0, gas |-> FailGas]
\* driver_gas before line 90/104/118 binds it
NoGas == [ok |-> FALSE, P |-> -1, T |-> -1, rho |-> -1, afr |-> -1, aeq |-> -1, s |-> -1]

\* driven_gas.TPX = T1,P1,q1 ; density ; soundspeed_fr  (lines 56-61)
DrivenStates ==
    {Gas(P1, T1, 10, a, a, 5) : a \in {300, 500, 1000, 1200}}

\* PostShock_fr(U, P1, T1, q1, driven_mech)  (line 72); the first answer is
\* the unshocked state
FrozenShockStates ==
    { Gas(1200, 300, 10, 1000, 1000, 5),
      Gas(2400, 400, 20, 1200, 1100, 6),
      Gas(3600, 500, 40, 1400, 1300, 7) }

\* PostShock_eq(U, P1, T1, q1, driven_mech)  (line 74)
EquilibriumShockStates ==
    { Gas(1200, 300, 10, 1000, 1000, 5),
      Gas(2400, 380, 20, 1150, 1050, 6),
      Gas(3600, 450, 50, 1300, 1200, 7) }

\* lines 71-74
PostShock(case) ==
    IF case = "frozen" THEN FrozenShockStates ELSE EquilibriumShockStates

\* driver_gas.TPX = T_driver,P_driver,q4  (lines 90-91).  With q4 and
\* driver_mech those of the driven side and P_driver = P1 (T_driver = T1), the
\* call is the call of line 57 and its answer is the driven state.
GasDriverStates(p) ==
    {Gas(p, T_driver, 20, 1500, 1400, 8)}
    \cup (IF p = P1 THEN {Gas(P1, T1, rho1, a1, a1, 5)} ELSE {})

\* driver_gas.TPX = fill ; equilibrate('UV')  (lines 104-106)
UVStates ==
    { Gas(3600, 3000, 20, 1600, 1500, 9),
      Gas(2400, 2800, 20, 1600, 1500, 9) }

\* density of the fill ; CJspeed ; PostShock_eq  (lines 118-122)
CJResponses ==
    { [ok |-> TRUE, rho4 |-> 20, cj_speed |-> 4000,
       gas |-> Gas(3600, 3200, r, 1600, 1500, 9)] : r \in {10, 20, 40} }

\* driver_gas.SVX = S4,vv,X  (line 141): the state at the entropy and volume
\* with the composition unchanged
FrozenExpansionStates ==
    { Gas(3600, 300, 20, 1500, 1400, 0),
      Gas(2400, 250, 20, 1500, 1400, 0),
      Gas(1200, 200, 10, 3000, 2800, 0),
      Gas(600, 150, 5, 4000, 3800, 0) }

\* driver_gas.SVX = S4,vv,X ; driver_gas.equilibrate('SV')  (lines 141-145)
EquilibriumExpansionStates ==
    { Gas(3600, 3000, 20, 1600, 1500, 0),
      Gas(2400, 2500, 20, 1600, 1500, 0),
      Gas(1200, 2000, 10, 3200, 3000, 0),
      Gas(600, 1500, 5, 4200, 4000, 0) }

\* lines 141-145
ExpansionStates(eq) ==
    IF eq THEN EquilibriumExpansionStates ELSE FrozenExpansionStates

NoResult == [none |-> TRUE]

\* The answers the oracle may give to the next call: any of S or a failure in
\* run 1, the recorded answer in run 2.
Oracle(S, failure) ==
    IF run = 2 /\ oracleCalls < Len(oracleLog)
    THEN {oracleLog[oracleCalls + 1]}
    ELSE S \cup {failure}

Consume(r) ==
    /\ oracleCalls' = oracleCalls + 1
    /\ oracleLog' = IF run = 1 THEN Append(oracleLog, r) ELSE oracleLog

(***************************************************************************)
(* Initial state: the interpreter before the first execution                *)
(***************************************************************************)
ScriptInit ==
    /\ run = 1
    /\ pc = "start"
    /\ error = "none"
    /\ oracleCalls = 0
    /\ oracleLog = <<>>
    /\ result = NoResult
    /\ result1 = NoResult
    /\ error1 = "none"
    /\ CASE_DRIVER \in {"gas", "uv", "cj"}
    /\ CASE_DRIVEN \in {"frozen", "equilibrium"}
    \* lines 87, 101, 115: the driver-side fill pressure is P_driver for the
    \* gas driver and P_driver_fill = P1 for the uv and cj drivers
    /\ P_driver \in (IF CASE_DRIVER = "gas" THEN DriverPressures ELSE {P1})
    /\ driven_gas = NoGas /\ shocked_gas = NoGas
    /\ rho1 = 0 /\ a1 = 0 /\ iU = 0
    /\ Us = <<>> /\ P2 = <<>> /\ T2 = <<>> /\ rho2 = <<>> /\ a2 = <<>> /\ u2 = <<>>
    /\ EQ_EXP = FALSE /\ rho4 = 0 /\ cj_speed = 0 /\ driver_gas = NoGas
    /\ P4 = 0 /\ T4 = 0 /\ S4 = 0 /\ vv = 0
    /\ P3 = <<>> /\ T3 = <<>> /\ rho3 = <<>> /\ a3 = <<>> /\ u3 = <<>>

NoRequest == [none |-> TRUE]
NoResponse == [none |-> TRUE]
NoStatus == -1
NoInput == [text |-> "unread"]

\* SDTBridge.__init__ (lines 48-52) and a process that has not started main
BridgeInit ==
    /\ CANTERA_AVAILABLE \in BOOLEAN
    /\ calculation_count = 0
    /\ error_count = 0
    /\ calls = 0
    /\ request = NoRequest
    /\ response = NoResponse
    /\ raised = "none"
    /\ mainPc = "start"
    /\ stdin = NoInput
    /\ stdout = <<>>
    /\ exitStatus = NoStatus
    /\ invocations = 0
    /\ failures = 0

\* the bridge is not run
BridgeIdle ==
    /\ BridgeInit
    /\ CANTERA_AVAILABLE

\* demo_CJstate_isentrope.py before its line 105: the globals of the march
\* are not bound
Unbound == [unbound |-> TRUE]
IsentropeInit ==
    isentrope = [pc |-> "start", error |-> "none", i |-> Unbound, vv |-> Unbound,
                 V |-> Unbound, P |-> Unbound, D |-> Unbound, a |-> Unbound,
                 u |-> Unbound, T |-> Unbound, nfinal |-> Unbound,
                 P3 |-> Unbound, a3 |-> Unbound, V3 |-> Unbound, T3 |-> Unbound]

Init ==
    /\ ScriptInit
    /\ BridgeIdle
    /\ IsentropeInit

(***************************************************************************)
(* An uncaught exception ends the script (it has no try/except)             *)
(***************************************************************************)
RaiseRetried(e) ==
    /\ pc' = pc
    /\ error' = e

Raise(e) ==
    /\ pc' = "failed"
    /\ error' = e

(***************************************************************************)
(* Lines 52-68: driven state, sweep bounds, empty shock lists               *)
(***************************************************************************)
\* line 65
Ustart(a) == (a * 101) \div 100
Ustop(a) == 8 * a
\* line 66: nsteps = int((Ustop-Ustart)/Ustep)
nsteps(a) == (Ustop(a) - Ustart(a)) \div Ustep

linspaceWithoutEndpoint(a, i) ==
    Ustart(a) + ((i - 1) * (Ustop(a) - Ustart(a))) \div nsteps(a)

\* line 70: np.linspace(Ustart,Ustop,num=nsteps)[i-1]
linspace(a, i) ==
    IF nsteps(a) = 1 THEN Ustart(a)
    ELSE Ustart(a) + ((i - 1) * (Ustop(a) - Ustart(a))) \div (nsteps(a) - 1)

KeepShockLists ==
    UNCHANGED shockVars

\* line 68
ResetShockLists ==
    /\ Us' = <<>> /\ P2' = <<>> /\ T2' = <<>>
    /\ rho2' = <<>> /\ a2' = <<>> /\ u2' = <<>>

DrivenState ==
    /\ pc = "start"
    /\ \E r \in Oracle(DrivenStates, FailGas) :
        /\ Consume(r)
        /\ IF r.ok
           THEN /\ driven_gas' = r
                /\ rho1' = r.rho
                /\ a1' = r.afr
                /\ iU' = 0
                /\ ResetShockLists
                /\ pc' = IF nsteps(r.afr) = 0 THEN "driver" ELSE "sweep"
                /\ error' = error
           ELSE /\ Raise("EquationOfStateError")
                /\ UNCHANGED <<driven_gas, drivenVars, shockVars>>
    /\ UNCHANGED shocked_gas
    /\ UNCHANGED <<bridgeVars, isentropeVars>>
    /\ UNCHANGED <<run, result, priorVars, cfgVars, driverVars, expVars>>

(***************************************************************************)
(* Lines 70-81: one iteration of the shock sweep                            *)
(***************************************************************************)
\* lines 79-80: w2 = rho1*U/shocked_gas.density ; u2 = U - w2
ShockVelocity(U, r1, r2) == U - (r1 * U) \div r2

SweepStep ==
    /\ pc = "sweep"
    /\ iU' = iU + 1
    /\ UNCHANGED <<rho1, a1>>
    /\ LET U == linspace(a1, iU + 1) IN
       \E r \in Oracle(PostShock(CASE_DRIVEN), FailGas) :
        /\ Consume(r)
        /\ IF r.ok
           THEN /\ shocked_gas' = r
                /\ a2' = Append(a2, r.afr)
                /\ P2' = Append(P2, r.P)
                /\ T2' = Append(T2, r.T)
                /\ rho2' = Append(rho2, r.rho)
                /\ u2' = Append(u2, ShockVelocity(U, rho1, r.rho))
                /\ Us' = Append(Us, U)
                /\ pc' = IF iU + 1 = nsteps(a1) THEN "driver" ELSE "sweep"
                /\ error' = error
           ELSE /\ Raise("EquationOfStateError")
                /\ UNCHANGED <<shocked_gas, shockVars>>
    /\ UNCHANGED driven_gas
    /\ UNCHANGED <<bridgeVars, isentropeVars>>
    /\ UNCHANGED <<run, result, priorVars, cfgVars, driverVars, expVars>>

(***************************************************************************)
(* Lines 83-138: driver state and the first expansion sample                *)
(***************************************************************************)
\* lines 130-133, 138: rho3, P3, T3, S4, vv from the driver state g
ExpansionStart(g) ==
    /\ driver_gas' = g
    /\ P4' = g.P
    /\ T4' = g.T
    /\ rho3' = <<g.rho>>
    /\ P3' = <<g.P>>
    /\ T3' = <<g.T>>
    /\ S4' = g.s
    /\ vv' = VVScale \div g.rho

\* lines 83-95
DriverGas ==
    /\ pc = "driver"
    /\ CASE_DRIVER = "gas"
    /\ \E r \in Oracle(GasDriverStates(P_driver), FailGas) :
        /\ Consume(r)
        /\ IF r.ok
           THEN /\ EQ_EXP' = FALSE
                /\ ExpansionStart(r)
                /\ a3' = <<r.afr>>
                /\ u3' = <<0>>
                /\ pc' = "march"
                /\ error' = error
           ELSE /\ Raise("EquationOfStateError")
                /\ UNCHANGED <<EQ_EXP, driver_gas, P4, T4, S4, vv, expVars>>
    /\ UNCHANGED <<rho4, cj_speed>>
    /\ UNCHANGED <<bridgeVars, isentropeVars>>
    /\ UNCHANGED <<run, result, priorVars, cfgVars, handleVars, drivenVars, shockVars>>

\* lines 97-110
DriverUV ==
    /\ pc = "driver"
    /\ CASE_DRIVER = "uv"
    /\ \E r \in Oracle(UVStates, FailGas) :
        /\ Consume(r)
        /\ IF r.ok
           THEN /\ EQ_EXP' = TRUE
                /\ ExpansionStart(r)
                /\ a3' = <<r.aeq>>
                /\ u3' = <<0>>
                /\ pc' = "march"
                /\ error' = error
           ELSE /\ Raise("EquationOfStateError")
                /\ UNCHANGED <<EQ_EXP, driver_gas, P4, T4, S4, vv, expVars>>
    /\ UNCHANGED <<rho4, cj_speed>>
    /\ UNCHANGED <<bridgeVars, isentropeVars>>
    /\ UNCHANGED <<run, result, priorVars, cfgVars, handleVars, drivenVars, shockVars>>

CJInitialVelocityReversed(cj, rfill, r) == cj - (cj * rfill) \div r

\* lines 126-127: w3 = cj_speed*rho4/driver_gas.density ; u3 = [w3-cj_speed]
CJInitialVelocity(cj, rfill, r) == (cj * rfill) \div r - cj

\* lines 112-127
DriverCJ ==
    /\ pc = "driver"
    /\ CASE_DRIVER = "cj"
    /\ \E r \in Oracle(CJResponses, FailCJ) :
        /\ Consume(r)
        /\ IF r.ok
           THEN /\ EQ_EXP' = TRUE
                /\ rho4' = r.rho4
                /\ cj_speed' = r.cj_speed
                /\ ExpansionStart(r.gas)
                /\ a3' = <<r.gas.aeq>>
                /\ u3' = <<CJInitialVelocity(r.cj_speed, r.rho4, r.gas.rho)>>
                /\ pc' = "march"
                /\ error' = error
           ELSE /\ Raise("EquationOfStateError")
                /\ UNCHANGED <<driverVars, expVars>>
    /\ UNCHANGED <<bridgeVars, isentropeVars>>
    /\ UNCHANGED <<run, result, priorVars, cfgVars, handleVars, drivenVars, shockVars>>

(***************************************************************************)
(* Lines 139-154: the expansion march                                       *)
(***************************************************************************)
MarchContinuesToFirst == u3[Len(u3)] < u2[1]

MarchContinuesWithoutTarget == u3[Len(u3)] < 0

\* line 139: while u3[-1] < u2[-1]
MarchContinues == u3[Len(u3)] < u2[Len(u2)]

MarchVelocityOneSided(u, Pn, Pp, rn, an, rp, ap) ==
    LET k == (VUnit * VUnit * DUnit) \div 2 IN
    u - 2 * ((k * (Pn - Pp)) \div (rn * an))

\* line 154: u3[-1] - 0.5*(P3[-1]-P3[-2])*(1/(rho3[-1]*a3[-1]) + 1./(rho3[-2]*a3[-2]))
\* with velocities in 1/VUnit and densities in 1/DUnit
MarchVelocity(u, Pn, Pp, rn, an, rp, ap) ==
    LET k == (VUnit * VUnit * DUnit) \div 2 IN
    u - ((k * (Pn - Pp)) \div (rn * an) + (k * (Pn - Pp)) \div (rp * ap))

\* line 139 evaluated on an empty shock family: u2[-1] raises IndexError
MarchIndexError ==
    /\ pc = "march"
    /\ Len(u2) = 0
    /\ Raise("IndexError")
    /\ UNCHANGED <<bridgeVars, isentropeVars>>
    /\ UNCHANGED <<run, result, priorVars, oracleCalls, oracleLog, cfgVars,
                   handleVars, drivenVars, shockVars, driverVars, expVars>>

SoundSpeedSwapped(g, eq) == IF eq THEN g.afr ELSE g.aeq

\* lines 143-149: soundspeed_eq after equilibration, soundspeed_fr otherwise
SoundSpeed(g, eq) == IF eq THEN g.aeq ELSE g.afr

SetSVXOnSharedHandle(g) ==
    /\ driver_gas' = g
    /\ shocked_gas' = g
    /\ driven_gas' = driven_gas

\* lines 141-145: driver_gas.SVX = S4,vv,driver_gas.X ; equilibrate('SV'):
\* the state of the object bound to driver_gas is replaced, no other object
\* is touched
SetSVX(g) ==
    /\ driver_gas' = g
    /\ UNCHANGED handleVars

\* lines 140-154: one iteration of the loop body
MarchStep ==
    /\ pc = "march"
    /\ Len(u2) > 0
    /\ MarchContinues
    /\ Len(u3) - 1 < MaxMarch
    /\ \E e \in Oracle(ExpansionStates(EQ_EXP), FailGas) :
        /\ Consume(e)
        /\ vv' = (vv * 101) \div 100
        /\ IF e.ok
           THEN LET g == [e EXCEPT !.s = S4]
                    an == SoundSpeed(g, EQ_EXP)
                IN  /\ SetSVX(g)
                    /\ a3' = Append(a3, an)
                    /\ P3' = Append(P3, g.P)
                    /\ T3' = Append(T3, g.T)
                    /\ rho3' = Append(rho3, g.rho)
                    /\ u3' = Append(u3, MarchVelocity(Last(u3), g.P, Last(P3),
                                        g.rho, an, Last(rho3), Last(a3)))
                    /\ UNCHANGED <<pc, error>>
           ELSE /\ Raise("EquationOfStateError")
                /\ UNCHANGED <<driver_gas, handleVars, expVars>>
    /\ UNCHANGED <<EQ_EXP, rho4, cj_speed, P4, T4, S4>>
    /\ UNCHANGED <<bridgeVars, isentropeVars>>
    /\ UNCHANGED <<run, result, priorVars, cfgVars>>
    /\ UNCHANGED <<drivenVars, shockVars>>

\* line 139 false: the loop is left
MarchExit ==
    /\ pc = "march"
    /\ Len(u2) > 0
    /\ ~MarchContinues
    /\ pc' = "match"
    /\ UNCHANGED <<bridgeVars, isentropeVars>>
    /\ UNCHANGED <<run, error, result, priorVars, oracleCalls, oracleLog, cfgVars,
                   handleVars, drivenVars, shockVars, driverVars, expVars>>

(***************************************************************************)
(* Lines 156-204: sorting, interpolants, bounded minimisation, report       *)
(***************************************************************************)
argsortUnsorted(s) == [r \in 1..Len(s) |-> r]

\* numpy argsort: the index sequence that sorts s ascending (ties by index)
argsort(s) ==
    [r \in 1..Len(s) |->
        CHOOSE i \in 1..Len(s) :
            Cardinality({j \in 1..Len(s) :
                s[j] < s[i] \/ (s[j] = s[i] /\ j < i)}) = r - 1]

TakeUnpermuted(s, idx) == s

\* s[idx]: numpy fancy indexing
Take(s, idx) == [k \in 1..Len(idx) |-> s[idx[k]]]

\* P/P1 in 1/RUnit
Ratio(P) == (P * RUnit) \div P1

\* lines 164-165
iP2 == argsort(P2)
iP3 == argsort(P3)

\* the grids of lines 174-175: P2[iP2]/P1 and P3[iP3]/P1
X2 == [k \in 1..Len(P2) |-> Ratio(P2[iP2[k]])]
X3 == [k \in 1..Len(P3) |-> Ratio(P3[iP3[k]])]

\* scipy pchip accepts a grid of at least two strictly increasing abscissae and
\* raises ValueError otherwise
PchipOk(xs) ==
    /\ Len(xs) >= 2
    /\ \A i \in 1..(Len(xs) - 1) : xs[i] < xs[i + 1]

\* the interval of the grid used for x; outside the grid pchip extrapolates
\* with the polynomial of the nearest interval
Segment(xs, x) ==
    IF x <= xs[1] THEN 1
    ELSE IF x >= xs[Len(xs)] THEN Len(xs) - 1
    ELSE CHOOSE i \in 1..(Len(xs) - 1) : xs[i] <= x /\ x < xs[i + 1]

\* scipy pchip evaluated at x: a shape-preserving interpolant through the
\* samples, monotone between neighbours; modelled by the chord
PchipEval(xs, ys, x) ==
    LET i == Segment(xs, x) IN
    ys[i] + ((ys[i + 1] - ys[i]) * (x - xs[i])) \div (xs[i + 1] - xs[i])

\* lines 174-175
P2P1_u2_fun(x) == PchipEval(X2, Take(u2, iP2), x)
P3P1_u3_fun(x) == PchipEval(X3, Take(u3, iP3), x)

\* line 171: pmax = max(P2)/P1
pmax == Ratio(SetMax(Range(P2)))

diff(x) == P2P1_u2_fun(x) - P3P1_u3_fun(x)
\* line 176
fun(x) == diff(x) * diff(x)

\* scipy fminbound(fun, pmin, pmax): a minimiser of fun strictly inside the
\* bracket.  fun is the square of a function that is linear between
\* neighbouring samples, so its minimum over the bracket is at a sample, at a
\* zero of diff between two samples, or next to an end of the bracket (the
\* routine never evaluates fun at the ends themselves).
Knots == {x \in Range(X2) \cup Range(X3) : pmin < x /\ x < pmax}
Base == {pmin + 1, pmax - 1} \cup Knots
Adjacent(S) == {q \in S \X S : q[1] < q[2] /\ ~\E z \in S : q[1] < z /\ z < q[2]}
SignChange(x, y) ==
    \/ diff(x) < 0 /\ diff(y) > 0
    \/ diff(x) > 0 /\ diff(y) < 0
Root(x, y) == x + ((y - x) * Abs(diff(x))) \div (Abs(diff(x)) + Abs(diff(y)))
Roots == {Root(q[1], q[2]) : q \in {p \in Adjacent(Base) : SignChange(p[1], p[2])}}
Candidates == Base \cup Roots

fminbound ==
    IF pmax - pmin < 2 THEN pmin
    ELSE CHOOSE x \in Candidates :
            \A y \in Candidates : fun(x) < fun(y) \/ (fun(x) = fun(y) /\ x <= y)

\* lines 179-204 and 253
Report(x) ==
    LET shock(ys) == PchipEval(X2, Take(ys, iP2), x)
        expansion(ys) == PchipEval(X3, Take(ys, iP3), x)
    IN  [ P_contact |-> x,
          U_shock |-> shock(Us),
          M_shock |-> Quot(shock(Us), a1),
          u2_contact |-> shock(u2),
          T2_contact |-> shock(T2),
          a2_contact |-> shock(a2),
          rho2_contact |-> shock(rho2),
          M2 |-> Quot(shock(u2), shock(a2)),
          u3_contact |-> expansion(u3),
          T3_contact |-> expansion(T3),
          a3_contact |-> expansion(a3),
          rho3_contact |-> expansion(rho3),
          M3 |-> Quot(expansion(u3), expansion(a3)),
          Z |-> Quot(shock(rho2) * shock(a2), expansion(rho3) * expansion(a3)) ]

\* lines 167, 174, 175 (pchip) and 179 (fminbound) raise ValueError
MatchRaises ==
    \/ ~PchipOk(X2)
    \/ ~PchipOk(X3)
    \/ pmin > pmax

Match ==
    /\ pc = "match"
    /\ IF MatchRaises
       THEN /\ Raise("ValueError")
            /\ UNCHANGED result
       ELSE /\ result' = Report(fminbound)
            /\ pc' = "done"
            /\ error' = error
    /\ UNCHANGED <<bridgeVars, isentropeVars>>
    /\ UNCHANGED <<run, priorVars, oracleCalls, oracleLog, cfgVars,
                   handleVars, drivenVars, shockVars, driverVars, expVars>>

(***************************************************************************)
(* A second execution of the script in the same namespace                   *)
(***************************************************************************)
Rerun ==
    /\ run = 1
    /\ pc \in {"done", "failed"}
    /\ run' = 2
    /\ pc' = "start"
    /\ error' = "none"
    /\ result' = NoResult
    /\ result1' = result
    /\ error1' = error
    /\ oracleCalls' = 0
    /\ UNCHANGED <<oracleLog, cfgVars, handleVars, drivenVars, shockVars, driverVars,
                   expVars>>
    /\ UNCHANGED <<bridgeVars, isentropeVars>>

Next ==
    \/ DrivenState
    \/ SweepStep
    \/ DriverGas
    \/ DriverUV
    \/ DriverCJ
    \/ MarchIndexError
    \/ MarchStep
    \/ MarchExit
    \/ Match
    \/ Rerun

Spec == Init /\ [][Next]_vars

(***************************************************************************)
(* sdt_bridge.py: requests                                                  *)
(*                                                                          *)
(* A request is the value json.loads returns.  A value that is not a JSON   *)
(* object is [type |-> "array"] and the like; an object is                  *)
(*   [type |-> "object", function, calc, requests]                          *)
(* where function is the value of its "function" key (Absent: no such key), *)
(* requests the value of its "requests" key when that is a list, and calc   *)
(* says what the rest of the object and Cantera make of the call:           *)
(*   "missing"  a required key is not there (KeyError),                     *)
(*   "fails"    the calculation raises,                                     *)
(*   "ok"       the calculation returns,                                    *)
(*   "notlist"  (batch) the "requests" key holds something else than a list.*)
(***************************************************************************)
\* line 379: the safety limit of a batch is 100 items; the model takes the
\* literal at the scale of its request sets
BatchLimit == 2
\* process_request calls the model makes on one bridge
MaxCalls == 2

Absent == "<absent>"
Obj(fn, calc, items) ==
    [type |-> "object", function |-> fn, calc |-> calc, requests |-> items]
NonObjects == {[type |-> "array"], [type |-> "string"], [type |-> "null"]}

\* lines 68-83: the functions that call Cantera or SDToolbox
Calculations ==
    {"CJspeed", "PostShock_eq", "PostShock_fr", "eq_state", "state",
     "soundspeed_eq", "soundspeed_fr", "FHFP"}

\* requests that are not batches
PlainRequests ==
    NonObjects
    \cup {Obj(Absent, "ok", <<>>), Obj("nope", "ok", <<>>)}
    \cup {Obj(f, c, <<>>) : f \in {"CJspeed", "soundspeed_fr"},
                            c \in {"missing", "fails", "ok"}}
    \cup {Obj("test_connection", c, <<>>) : c \in {"fails", "ok"}}
    \cup {Obj("validate_mechanism", c, <<>>) : c \in {"missing", "fails", "ok"}}

\* the items the model puts into batches
BatchItems ==
    {[type |-> "array"], Obj("CJspeed", "ok", <<>>), Obj("CJspeed", "fails", <<>>)}

SeqsUpTo(S, n) == UNION {[1..k -> S] : k \in 0..n}

\* batches of plain items, up to one item more than the limit
PlainBatches ==
    {Obj("batch", "ok", items) : items \in SeqsUpTo(BatchItems, BatchLimit + 1)}
    \cup {Obj("batch", "missing", <<>>), Obj("batch", "notlist", <<>>)}

\* batches with a batch among their items
NestedBatches ==
    {Obj("batch", "ok", <<b>>) : b \in PlainBatches}
    \cup {Obj("batch", "ok", <<b, b>>) :
            b \in {Obj("batch", "ok", <<i, i>>) : i \in BatchItems}}

Requests == PlainRequests \cup PlainBatches \cup NestedBatches

(***************************************************************************)
(* sdt_bridge.py: responses                                                 *)
(***************************************************************************)
Null == [null |-> TRUE]

\* lines 94-105
SuccessResponse(fn, res, count) ==
    [success |-> TRUE, result |-> res, errors |-> <<>>, warnings |-> <<>>,
     metadata |-> [function |-> fn, calculation_count |-> count]]

\* lines 113-124
ErrorResponse(msg, fn, count) ==
    [success |-> FALSE, result |-> Null, errors |-> <<msg>>, warnings |-> <<>>,
     metadata |-> [function |-> fn, error_count |-> count]]

\* lines 388-394
BatchItemError(i, msg) ==
    [success |-> FALSE, result |-> Null, errors |-> <<msg>>, warnings |-> <<>>,
     metadata |-> [batch_index |-> i]]

\* lines 454-460, 481-487 and 492-501
MainErrorResponse(msg) ==
    [success |-> FALSE, result |-> Null, errors |-> <<msg>>, warnings |-> <<>>,
     metadata |-> [protocol_version |-> "1.0"]]

(***************************************************************************)
(* SDTBridge.process_request and SDTBridge._process_batch                   *)
(*                                                                          *)
(* Both are computed on the two counters: process_request(req, cc, ec) is   *)
(* the call made with calculation_count = cc and error_count = ec, and its  *)
(* value holds the counters after the call, the response returned and the   *)
(* exception that escaped ("none" when the call returned).                  *)
(***************************************************************************)
\* n counts the executions of process_request the call consists of (itself
\* and, for a batch, those made for its items), f those that did not end with
\* a success response
Returned(resp, cc, ec) ==
    [raised |-> "none", response |-> resp, cc |-> cc, ec |-> ec,
     n |-> 1, f |-> IF resp.success THEN 0 ELSE 1]
Escaped(e, cc, ec) ==
    [raised |-> e, response |-> NoResponse, cc |-> cc, ec |-> ec,
     n |-> 1, f |-> 1]

ExceptUncounted(req, msg, cc, ec) ==
    IF req.type # "object" THEN Escaped("AttributeError", cc, ec)
    ELSE Returned(ErrorResponse(msg, IF req.function = Absent THEN "unknown"
                                     ELSE req.function, ec),
                  cc, ec)

\* lines 109-126: error_count += 1, then the error response is built with
\* request_data.get("function", "unknown"); a request that is not a dict has
\* no get, and the AttributeError leaves process_request
Except(req, msg, cc, ec) ==
    IF req.type # "object" THEN Escaped("AttributeError", cc, ec + 1)
    ELSE Returned(ErrorResponse(msg, IF req.function = Absent THEN "unknown"
                                     ELSE req.function, ec + 1),
                  cc, ec + 1)

\* what a function other than batch does (lines 128-370): [ok, res or msg]
Calculate(req, cantera) ==
    IF req.function \in Calculations
    THEN IF req.calc = "missing" THEN [ok |-> FALSE, msg |-> "KeyError"]
         ELSE IF req.calc = "fails" \/ ~cantera
              THEN [ok |-> FALSE, msg |-> "calculation failed"]
              ELSE [ok |-> TRUE, res |-> [value |-> req.function]]
    ELSE IF req.function = "test_connection"
    \* lines 321-343: a failing test calculation is caught and reported
    THEN [ok |-> TRUE,
          res |-> [cantera_available |-> cantera,
                   test_passed |-> cantera /\ req.calc = "ok"]]
    ELSE IF req.function = "validate_mechanism"
    \* lines 345-370: a mechanism that does not load is caught and reported
    THEN IF req.calc = "missing" THEN [ok |-> FALSE, msg |-> "KeyError"]
         ELSE [ok |-> TRUE, res |-> [valid |-> cantera /\ req.calc = "ok"]]
    ELSE [ok |-> FALSE, msg |-> "Unknown function"]

RECURSIVE process_request(_, _, _, _)
RECURSIVE process_batch(_, _, _, _, _, _)

process_batchEndsAtFailure(items, i, results, cc, ec, cantera) ==
    IF i > Len(items)
    THEN [results |-> results, cc |-> cc, ec |-> ec, n |-> 0, f |-> 0]
    ELSE LET r == process_request(items[i], cc, ec, cantera)
             entry == IF r.raised = "none" THEN r.response
                      ELSE BatchItemError(i - 1, r.raised)
             rest == IF entry.success
                     THEN process_batch(items, i + 1, Append(results, entry),
                                        r.cc, r.ec, cantera)
                     ELSE [results |-> Append(results, entry), cc |-> r.cc,
                           ec |-> r.ec, n |-> 0, f |-> 0]
         IN  [rest EXCEPT !.n = @ + r.n, !.f = @ + r.f]

\* lines 383-395: the loop over requests[i..], with results collected so far
process_batch(items, i, results, cc, ec, cantera) ==
    IF i > Len(items)
    THEN [results |-> results, cc |-> cc, ec |-> ec, n |-> 0, f |-> 0]
    ELSE LET r == process_request(items[i], cc, ec, cantera)
             entry == IF r.raised = "none" THEN r.response
                      ELSE BatchItemError(i - 1, r.raised)
             rest == process_batch(items, i + 1, Append(results, entry),
                                   r.cc, r.ec, cantera)
         IN  [rest EXCEPT !.n = @ + r.n, !.f = @ + r.f]

\* lines 54-126
process_request(req, cc, ec, cantera) ==
    IF req.type # "object"
    THEN Except(req, "Request must be a JSON object", cc, ec)
    ELSE IF req.function = Absent
    THEN Except(req, "Request must specify 'function' field", cc, ec)
    ELSE IF req.function = "batch"
    THEN IF req.calc = "missing" THEN Except(req, "KeyError", cc + 1, ec)
         ELSE IF req.calc = "notlist"
         THEN Except(req, "Batch requests must be a list", cc + 1, ec)
         ELSE IF Len(req.requests) > BatchLimit
         THEN Except(req, "Batch size too large", cc + 1, ec)
         ELSE LET b == process_batch(req.requests, 1, <<>>, cc + 1, ec, cantera)
              IN  [Returned(SuccessResponse("batch",
                                            [batch_results |-> b.results], b.cc),
                            b.cc, b.ec)
                     EXCEPT !.n = @ + b.n, !.f = @ + b.f]
    ELSE LET c == Calculate(req, cantera)
         IN  IF c.ok
             THEN Returned(SuccessResponse(req.function, c.res, cc + 1), cc + 1, ec)
             ELSE Except(req, c.msg, cc + 1, ec)

(***************************************************************************)
(* A user of the class calls process_request on one bridge                  *)
(***************************************************************************)
ProcessRequest ==
    /\ mainPc = "start"
    /\ calls < MaxCalls
    /\ \E req \in Requests :
        LET r == process_request(req, calculation_count, error_count,
                                 CANTERA_AVAILABLE)
        IN  /\ request' = req
            /\ calculation_count' = r.cc
            /\ error_count' = r.ec
            /\ response' = r.response
            /\ raised' = r.raised
            /\ invocations' = invocations + r.n
            /\ failures' = failures + r.f
    /\ calls' = calls + 1
    /\ UNCHANGED <<CANTERA_AVAILABLE, mainPc, stdin, stdout, exitStatus>>
    /\ UNCHANGED <<scriptVars, isentropeVars>>

(***************************************************************************)
(* main (lines 451-503): the bridge run as a process                        *)
(***************************************************************************)
\* the contents of standard input: nothing, white space only, text that is
\* not JSON, or the text of a JSON value
Stdin ==
    {[text |-> "empty"], [text |-> "blank"], [text |-> "garbage"]}
    \cup {[text |-> "json", value |-> v] : v \in Requests}

\* line 468: sys.stdin.read().strip() is the empty string
StripsToNothing(input) == input.text \in {"empty", "blank"}

\* line 472: json.loads raises JSONDecodeError
NotJSON(input) == input.text = "garbage"

ExitWithErrorStatusZero(msg) ==
    /\ stdout' = Append(stdout, MainErrorResponse(msg))
    /\ exitStatus' = 0

\* lines 461-462, 488-489, 502-503: one error response is printed, exit(1)
ExitWithError(msg) ==
    /\ stdout' = Append(stdout, MainErrorResponse(msg))
    /\ exitStatus' = 1

Main ==
    /\ mainPc = "start"
    /\ calls = 0
    /\ mainPc' = "exited"
    /\ IF ~CANTERA_AVAILABLE
       THEN /\ ExitWithError("Cantera/SDToolbox not available")
            /\ UNCHANGED <<stdin, calculation_count, error_count,
                           invocations, failures>>
       ELSE \E input \in Stdin :
            /\ stdin' = input
            /\ IF StripsToNothing(input)
               THEN /\ ExitWithError("No input provided")
                    /\ UNCHANGED <<calculation_count, error_count,
                                   invocations, failures>>
               ELSE IF NotJSON(input)
               THEN /\ ExitWithError("Invalid JSON input")
                    /\ UNCHANGED <<calculation_count, error_count,
                                   invocations, failures>>
               ELSE LET r == process_request(input.value, 0, 0, CANTERA_AVAILABLE)
                    IN  /\ calculation_count' = r.cc
                        /\ error_count' = r.ec
                        /\ invocations' = r.n
                        /\ failures' = r.f
                        /\ IF r.raised # "none"
                           THEN ExitWithError(r.raised)
                           ELSE /\ stdout' = Append(stdout, r.response)
                                /\ exitStatus' = 0
    /\ UNCHANGED <<CANTERA_AVAILABLE, calls, request, response, raised>>
    /\ UNCHANGED <<scriptVars, isentropeVars>>

\* the script is not run: its globals stay as the literals of lines 43, 48
\* and 87 leave them
ScriptIdle ==
    /\ ScriptInit
    /\ CASE_DRIVER = "gas"
    /\ CASE_DRIVEN = "frozen"
    /\ P_driver = 3 * P1

InitBridge ==
    /\ ScriptIdle
    /\ BridgeInit
    /\ IsentropeInit

NextBridge ==
    \/ ProcessRequest
    \/ Main

BridgeSpec == InitBridge /\ [][NextBridge]_vars

(***************************************************************************)
(* demo_CJstate_isentrope.py, lines 105-138: points on the isentrope of the *)
(* CJ state and the velocity in the Taylor wave                             *)
(***************************************************************************)
\* line 105: npoints = 200; the model takes the literal at the scale of its
\* answer sets
npoints == 5

\* np.zeros(npoints, float): indices 0 .. npoints-1
zeros == [k \in 0..(npoints - 1) |-> 0]

\* lines 66-69: the CJ speed and the CJ state answered by CJspeed and
\* PostShock_eq for the initial density D1 (line 52)
IsentropeD1 == 10
IsentropeCJSpeeds == {4000}
IsentropeCJStates == {Gas(3600, 3000, d, 1600, 1500, 9) : d \in {10, 20, 40}}

\* lines 125-126: the states answered to gas.SVX = S2, vv, x followed by
\* gas.equilibrate('SV')
IsentropeStates ==
    { Gas(3600, 3000, 20, 1600, 1500, 9),
      Gas(3570, 2990, 20, 1600, 1500, 9),
      Gas(3540, 2980, 20, 1600, 1500, 9),
      Gas(2400, 2500, 10, 1500, 1400, 9) }

\* line 132: u[i-1] + 0.5*(P[i]-P[i-1])*(1./(D[i]*a[i]) + 1./(D[i-1]*a[i-1]))
TaylorVelocity(u_, Pn, Pp, Dn, an, Dp, ap) ==
    LET k == (VUnit * VUnit * DUnit) \div 2 IN
    u_ + ((k * (Pn - Pp)) \div (Dn * an) + (k * (Pn - Pp)) \div (Dp * ap))

\* arr[k] = x raises IndexError unless -npoints <= k < npoints
InBounds(k) == 0 <= k /\ k < npoints

\* lines 66-78 and 105-120: CJ state, the arrays and their element 1
IsentropeStart ==
    /\ isentrope.pc = "start"
    /\ \E cj_speed_ \in IsentropeCJSpeeds, g \in IsentropeCJStates :
        LET w2 == (IsentropeD1 * cj_speed_) \div g.rho
            u2_ == cj_speed_ - w2
            V2 == VVScale \div g.rho
        IN  isentrope' = [isentrope EXCEPT
                !.pc = "march", !.i = 1, !.vv = V2,
                !.V = [zeros EXCEPT ![1] = V2],
                !.P = [zeros EXCEPT ![1] = g.P],
                !.D = [zeros EXCEPT ![1] = g.rho],
                !.a = [zeros EXCEPT ![1] = g.aeq],
                !.u = [zeros EXCEPT ![1] = u2_],
                !.T = [zeros EXCEPT ![1] = g.T]]
    /\ UNCHANGED <<scriptVars, bridgeVars>>

\* line 121: while u[i] > 0 and i < npoints
IsentropeContinues ==
    /\ isentrope.u[isentrope.i] > 0
    /\ isentrope.i < npoints

\* lines 122-132: one pass of the loop body; the first subscripted
\* assignment (line 127) raises IndexError when i has left the arrays
IsentropeStep ==
    /\ isentrope.pc = "march"
    /\ IsentropeContinues
    /\ LET i_ == isentrope.i + 1
           vv_ == (isentrope.vv * 101) \div 100
       IN  \E e \in IsentropeStates \cup {FailGas} :
            IF ~e.ok
            THEN isentrope' = [isentrope EXCEPT !.pc = "failed",
                                  !.error = "EquationOfStateError",
                                  !.i = i_, !.vv = vv_]
            ELSE IF ~InBounds(i_)
            THEN isentrope' = [isentrope EXCEPT !.pc = "failed",
                                  !.error = "IndexError",
                                  !.i = i_, !.vv = vv_]
            ELSE isentrope' = [isentrope EXCEPT
                    !.i = i_, !.vv = vv_,
                    !.P[i_] = e.P,
                    !.D[i_] = e.rho,
                    !.V[i_] = VVScale \div e.rho,
                    !.T[i_] = e.T,
                    !.a[i_] = e.aeq,
                    !.u[i_] = TaylorVelocity(isentrope.u[i_ - 1], e.P,
                                             isentrope.P[i_ - 1], e.rho, e.aeq,
                                             isentrope.D[i_ - 1],
                                             isentrope.a[i_ - 1])]
    /\ UNCHANGED <<scriptVars, bridgeVars>>

\* lines 135-138: x[nfinal] + u[nfinal]*(x[nfinal-1]-x[nfinal])/(u[nfinal-1]-u[nfinal]);
\* a zero denominator gives a numpy inf or nan, not an exception
Plateau(x, n) ==
    LET du == isentrope.u[n - 1] - isentrope.u[n] IN
    IF du = 0 THEN [finite |-> FALSE, v |-> 0]
    ELSE [finite |-> TRUE,
          v |-> x[n] + (isentrope.u[n] * (x[n - 1] - x[n])) \div du]

\* line 121 false, then lines 134-138
IsentropeExit ==
    /\ isentrope.pc = "march"
    /\ ~IsentropeContinues
    /\ LET n == isentrope.i IN
       isentrope' = [isentrope EXCEPT
            !.pc = "plateau", !.nfinal = n,
            !.P3 = Plateau(isentrope.P, n),
            !.a3 = Plateau(isentrope.a, n),
            !.V3 = Plateau(isentrope.V, n),
            !.T3 = Plateau(isentrope.T, n)]
    /\ UNCHANGED <<scriptVars, bridgeVars>>

InitIsentrope ==
    /\ ScriptIdle
    /\ BridgeIdle
    /\ IsentropeInit

NextIsentrope ==
    \/ IsentropeStart
    \/ IsentropeStep
    \/ IsentropeExit

IsentropeSpec == InitIsentrope /\ [][NextIsentrope]_vars

(***************************************************************************)
(* Properties                                                               *)
(***************************************************************************)
\* an iteration cap below the depth to which the march is explored
IterationCap == MaxMarch - 1

\* the march loop has been left and matching has started
MarchEnded ==
    \/ pc \in {"match", "done"}
    \/ pc = "failed" /\ error = "ValueError"

\* the two P-u curves meet somewhere in the closed search bracket: diff is
\* linear between neighbouring points of Knots and the two ends, so it has a
\* zero in [pmin, pmax] exactly when it is zero or changes sign on them
CurvesCross ==
    LET S == Knots \cup {pmin, pmax} IN
    \E x \in S : \E y \in S : diff(x) <= 0 /\ diff(y) >= 0

\* the minimiser is next to an end of the bracket
AtBracketEnd(x) == x <= pmin + 1 \/ x >= pmax - 1

\* C1: the expansion march performs at most iteration_cap steps and then
\* stops, whatever the oracle answers: the loop is never about to run its body
\* again (velocity still below the target) with more than iteration_cap steps
\* behind it.
C1_MarchWithinCap ==
    (pc = "march" /\ Len(u2) > 0 /\ MarchContinues)
    => Len(u3) - 1 <= IterationCap

\* C2: when the march has made iteration_cap steps and its last velocity is
\* still below the target, the run ends with IterationBudgetExceeded: its next
\* step (one in which the oracle does not fail) is that failure, and neither
\* another march step nor the matcher.
C2_CapReported ==
    [][ (pc = "march" /\ Len(u2) > 0 /\ Len(u3) - 1 >= IterationCap
            /\ MarchContinues /\ error' # "EquationOfStateError")
        => (pc' = "failed" /\ error' = "IterationBudgetExceeded") ]_vars

\* C3: a report is produced only if the shock curve and the expansion curve
\* cross inside the search bracket (the squared mismatch at the minimiser is
\* zero up to the resolution); otherwise the matcher fails.
C3_ResultOnlyAtCrossing ==
    result # NoResult => CurvesCross

\* C4: the matched pressure ratio of every report lies between the smallest
\* and the largest sampled P/P1 of the shock curve and of the expansion curve,
\* so that no reported quantity is an extrapolation.  (Stated with <= and one
\* step of the ratio's resolution to spare: a report that breaks this one is
\* outside a sampled range by more than rounding.)
C4_InsideBothRanges ==
    result # NoResult =>
        /\ X2[1] - 1 <= result.P_contact /\ result.P_contact <= X2[Len(X2)] + 1
        /\ X3[1] - 1 <= result.P_contact /\ result.P_contact <= X3[Len(X3)] + 1

\* C5: no report is produced when the minimisation ends at an end of the
\* bracket without an interior root.
C5_NoReportAtBracketEnd ==
    result # NoResult => ~(AtBracketEnd(result.P_contact) /\ ~CurvesCross)

C7_CJVelocityNotPositive ==
    (pc \in {"march", "match", "done"} /\ CASE_DRIVER = "cj"
        /\ cj_speed > 0 /\ rho3[1] >= rho4)
    => u3[1] <= 0

C7_Witness ==
    /\ pc = "march"
    /\ CASE_DRIVER = "cj"
    /\ cj_speed > 0
    /\ rho3[1] > rho4
    /\ u3[1] < 0

\* C8: an oracle failure ends the run at once: the run is in its failed state
\* with that error and without a report, and afterwards the run makes no
\* further oracle call, reaches no later stage and produces no report.
C8_OracleFailurePropagates ==
    [][ /\ error' = "EquationOfStateError"
            => (pc' = "failed" /\ result' = NoResult)
        /\ (error = "EquationOfStateError" /\ run' = run)
            => (oracleCalls' = oracleCalls /\ pc' = pc /\ result' = result
                /\ error' = error) ]_vars

C8_Witness ==
    /\ pc = "failed"
    /\ error = "EquationOfStateError"
    /\ Len(u3) >= 2
    /\ oracleCalls = Len(Us) + Len(u3) + 2

\* C9: a run whose driver pressure is <= the driven pressure, or whose driven
\* or driver temperature is <= 0, makes no oracle call and ends with
\* InputValidationError.
C9_InvalidInputRejectedFirst ==
    (P_driver <= P1 \/ T1 <= 0 \/ T_driver <= 0)
    => (oracleCalls = 0 /\ (pc # "start" => error = "InputValidationError"))

\* C10: the second run, with the same inputs and the same oracle answers, ends
\* as the first run did: same report, same error.
C10_SecondRunIdentical ==
    (run = 2 /\ pc \in {"done", "failed"})
    => (result = result1 /\ error = error1)

C10_Witness ==
    /\ run = 2
    /\ pc = "done"
    /\ result # NoResult
    /\ result = result1

\* the driver holds the driven gas at the driven fill state: P_driver = P1 and
\* the first expansion sample is the driven state
SameGasSamePressure ==
    /\ CASE_DRIVER = "gas"
    /\ P_driver = P1
    /\ Len(P3) >= 1
    /\ P3[1] = P1 /\ T3[1] = T1 /\ rho3[1] = rho1 /\ a3[1] = a1

\* C11: when the driver fill pressure equals the driven fill pressure and
\* both sides hold the same gas, the report of a finished run has the matched
\* pressure ratio 1.0 and the matched shock speed a1.
C11_NoShockLimit ==
    (pc = "done" /\ SameGasSamePressure)
    => (result.P_contact = RUnit /\ result.U_shock = a1)

\* the velocities the last point of the shock family can have, over the
\* answers the post-shock call can give at the last swept speed
LastShockVelocities ==
    {ShockVelocity(linspace(a1, nsteps(a1)), rho1, r.rho) : r \in PostShock(CASE_DRIVEN)}

\* C12 as stated: the expansion family does not depend on the shock family:
\* whether the march takes another step is the same whichever shock family
\* the sweep has produced.
C12_MarchIndependentOfShockFamily ==
    (pc = "march" /\ Len(u2) > 0)
    => \A v \in LastShockVelocities : MarchContinues <=> (u3[Len(u3)] < v)

\* C12 as amended: the dependency goes one way.  Every point of the shock
\* family is placed before any driver-side datum exists (first run); the
\* expansion march starts only on the complete shock family and reads one
\* value of it, the velocity of its last point: a point is added to the
\* expansion family exactly while the last expansion velocity is below that
\* value, and the march is left for the matcher only when it is not.
C12_ShockFamilyFirst ==
    [][ /\ (run = 1 /\ Len(Us') > Len(Us))
            => (driver_gas = NoGas /\ P3 = <<>> /\ u3 = <<>>)
        /\ (Len(u3) >= 1 /\ Len(u3') = Len(u3) + 1)
            => (iU = nsteps(a1) /\ Len(u2) > 0 /\ u3[Len(u3)] < u2[Len(u2)]
                /\ shockVars' = shockVars)
        /\ (pc = "march" /\ pc' = "match")
            => (iU = nsteps(a1) /\ u3[Len(u3)] >= u2[Len(u2)]) ]_vars

C12_Witness ==
    /\ run = 1
    /\ pc = "match"
    /\ Len(Us) >= 2
    /\ Len(u3) >= 2

\* C13: the builders share no mutable gas object: a step of the expansion
\* march leaves the driven gas object, the post-shock gas object, rho1, a1 and
\* every point of the shock family as they were, and a step of the shock
\* sweep leaves the driver gas object, the driver state and the expansion
\* family as they were.
C13_NoSharedGasHandle ==
    [][ /\ (pc = "march" /\ oracleCalls' = oracleCalls + 1)
            => (driven_gas' = driven_gas /\ shocked_gas' = shocked_gas
                /\ rho1' = rho1 /\ a1' = a1 /\ shockVars' = shockVars)
        /\ (pc = "sweep" /\ oracleCalls' = oracleCalls + 1)
            => (driverVars' = driverVars /\ expVars' = expVars) ]_vars

C13_Witness ==
    /\ pc = "march"
    /\ Len(P3) >= 3
    /\ Len(P2) >= 2
    /\ driven_gas.ok /\ shocked_gas.ok /\ driver_gas.ok
    /\ driver_gas # shocked_gas

\* C14: every report has a shock Mach number above 1: the matched shock
\* speed, read off the shock curve's U interpolant, exceeds a1.
C14_ShockMachAboveOne ==
    result # NoResult => result.U_shock > a1

\* every sampled density and sound speed of both families is positive
SamplesPositive ==
    /\ \A i \in 1..Len(rho2) : rho2[i] > 0 /\ a2[i] > 0
    /\ \A i \in 1..Len(rho3) : rho3[i] > 0 /\ a3[i] > 0

\* C15: the reported impedance ratio is (rho2*a2)/(rho3*a3) of the four
\* values reported at the matched pressure ratio, and when every sampled
\* density and sound speed is positive it is defined and positive.  (Stated
\* as: the denominator is not zero and the quotient is not negative, so that
\* only a value that is wrong beyond rounding breaks it.)
C15_ImpedanceRatio ==
    result # NoResult =>
        LET num == result.rho2_contact * result.a2_contact
            den == result.rho3_contact * result.a3_contact
        IN  /\ result.Z = Quot(num, den)
            /\ SamplesPositive =>
                /\ den # 0
                /\ ~(num < 0 /\ den > 0)
                /\ ~(num > 0 /\ den < 0)

\* the requests the bridge cannot answer with a result: not a JSON object, no
\* 'function' field, an unknown function, a required parameter missing, or a
\* calculation that fails
MustFail(req) ==
    \/ req.type # "object"
    \/ req.function = Absent
    \/ req.function \notin
            Calculations \cup {"test_connection", "validate_mechanism", "batch"}
    \/ req.function # "test_connection" /\ req.calc = "missing"
    \/ req.function \in Calculations /\ (req.calc = "fails" \/ ~CANTERA_AVAILABLE)

\* C16: process_request returns a response for every request and lets no
\* exception escape; the response to a request it cannot answer has
\* success = false, result = null and a non-empty errors list, and a response
\* with success = true has an empty errors list.
C16_AlwaysAResponse ==
    calls > 0 =>
        /\ raised = "none"
        /\ response # NoResponse
        /\ MustFail(request) =>
            (~response.success /\ response.result = Null /\ Len(response.errors) > 0)
        /\ response.success => response.errors = <<>>

\* C17: whatever standard input holds, a run of the bridge that has exited
\* has printed exactly one response, which carries a success field, and its
\* exit status is not zero when the input was empty or not JSON or when
\* Cantera is not available.
C17_OneResponsePerRun ==
    mainPc = "exited" =>
        /\ Len(stdout) = 1
        /\ stdout[1].success \in BOOLEAN
        /\ exitStatus # NoStatus
        /\ (~CANTERA_AVAILABLE \/ stdin.text \in {"empty", "blank", "garbage"})
            => exitStatus # 0

C17_Witness ==
    /\ mainPc = "exited"
    /\ stdin.text = "json"
    /\ stdin.value.type = "array"
    /\ Len(stdout) = 1
    /\ ~stdout[1].success
    /\ exitStatus = 1

\* the CJ driver state has been computed in this run
CJDriverReady ==
    pc \in {"march", "match", "done"} /\ CASE_DRIVER = "cj"

\* C18 as stated: for the CJ driver the initial driver velocity is
\* cj_speed - cj_speed*rho_fill/rho(GasState0).
C18_InitialVelocityAsStated ==
    CJDriverReady => u3[1] = cj_speed - (cj_speed * rho4) \div rho3[1]

\* C18 as amended: for the CJ driver the initial driver velocity is
\* w3 - cj_speed, where w3 = cj_speed*rho_fill/rho(GasState0) is the speed of
\* the products relative to the wave (rho(GasState0)*w3 = rho_fill*cj_speed,
\* up to the rounding of the quotient).
C18_InitialVelocity ==
    CJDriverReady =>
        LET w3 == u3[1] + cj_speed
        IN  /\ w3 * rho3[1] <= cj_speed * rho4
            /\ cj_speed * rho4 < (w3 + 1) * rho3[1]

C18_Witness ==
    /\ CJDriverReady
    /\ cj_speed > 0
    /\ rho3[1] < rho4
    /\ u3[1] > 0

\* the last sample of the expansion family is the state s with the sound
\* speed a
LastSampleIs(s, a) ==
    /\ P3'[Len(P3')] = s.P /\ T3'[Len(T3')] = s.T
    /\ rho3'[Len(rho3')] = s.rho /\ a3'[Len(a3')] = a

\* C19: the driver mode fixes the initial velocity and the expansion mode
\* (gas: 0 and frozen; uv: 0 and equilibrium; cj: equilibrium), and every
\* march step records an equilibrated state with its equilibrium sound speed
\* if the mode is equilibrium, and the state of unchanged composition with
\* its frozen sound speed if it is not.
C19_DriverModeFixesExpansion ==
    /\ [](pc \in {"march", "match", "done"} =>
            /\ CASE_DRIVER = "gas" => (u3[1] = 0 /\ ~EQ_EXP)
            /\ CASE_DRIVER = "uv" => (u3[1] = 0 /\ EQ_EXP)
            /\ CASE_DRIVER = "cj" => EQ_EXP)
    /\ [][ (pc = "march" /\ Len(u3') = Len(u3) + 1) =>
            IF EQ_EXP
            THEN \E s \in EquilibriumExpansionStates : LastSampleIs(s, s.aeq)
            ELSE \E s \in FrozenExpansionStates : LastSampleIs(s, s.afr) ]_vars

C19_Witness ==
    /\ pc = "march"
    /\ Len(a3) >= 2
    /\ \/ ~EQ_EXP /\ a3[2] \in {s.afr : s \in FrozenExpansionStates}
                  /\ T3[2] \in {s.T : s \in FrozenExpansionStates}
       \/ EQ_EXP /\ a3[2] \in {s.aeq : s \in EquilibriumExpansionStates}
                 /\ T3[2] \in {s.T : s \in EquilibriumExpansionStates}

\* the sweep loop of this run has run to its end
SweepDone == pc \in {"driver", "march", "match", "done"}

\* the swept speeds are strictly increasing and all above a1
SweepOrdered ==
    /\ \A i \in 1..Len(Us) : \A j \in 1..Len(Us) : i < j => Us[i] < Us[j]
    /\ \A i \in 1..Len(Us) : Us[i] > a1

RECURSIVE Grown(_, _)
Grown(v, n) == IF n = 0 THEN v ELSE (Grown(v, n - 1) * 101) \div 100

\* the five sequences of the expansion family have the same length
SameLength(n) ==
    Len(P3) = n /\ Len(T3) = n /\ Len(rho3) = n /\ Len(a3) = n /\ Len(u3) = n

\* C21: the five sequences of the expansion family have equal length before
\* and after every march step; the specific volume asked for at step n is
\* v0*g^n and the entropy asked for is that of the driver's initial state;
\* and the velocity appended at step n is
\* u[n-1] - 0.5*(P[n]-P[n-1])*(1/(rho[n]*a[n]) + 1/(rho[n-1]*a[n-1])).
C21_MarchStepVelocity ==
    /\ [](pc \in {"march", "match", "done"} =>
            /\ SameLength(Len(u3))
            /\ pc = "march" => vv = Grown(VVScale \div rho3[1], Len(u3) - 1))
    /\ [][ (pc = "driver" /\ pc' = "march") => S4' = driver_gas'.s ]_vars
    /\ [][ (pc = "march" /\ Len(u3') = Len(u3) + 1) =>
            LET n == Len(u3')
                dP == P3'[n] - P3'[n - 1]
                half == (VUnit * VUnit * DUnit) \div 2
            IN  /\ S4' = S4
                /\ driver_gas'.s = S4
                /\ u3'[n] = u3'[n - 1]
                            - ((half * dP) \div (rho3'[n] * a3'[n])
                               + (half * dP) \div (rho3'[n - 1] * a3'[n - 1]))
                /\ \A i \in 1..(n - 1) :
                      /\ u3'[i] = u3[i] /\ P3'[i] = P3[i] /\ T3'[i] = T3[i]
                      /\ rho3'[i] = rho3[i] /\ a3'[i] = a3[i] ]_vars

C21_Witness ==
    /\ pc = "march"
    /\ SameLength(3)
    /\ P3[1] > P3[2] /\ P3[2] > P3[3]
    /\ u3[1] < u3[2] /\ u3[2] < u3[3]
    /\ rho3[2] * a3[2] # rho3[1] * a3[1]

NonDecreasing(xs) == \A i \in 1..(Len(xs) - 1) : xs[i] <= xs[i + 1]

\* C22: when the interpolants are built, the pressures of each family taken
\* in sorted order, and the P/P1 grids made from them, are non-decreasing,
\* whatever the order in which the points were produced.
C22_SortedGridsNonDecreasing ==
    pc \in {"match", "done"} =>
        /\ NonDecreasing(Take(P2, iP2)) /\ NonDecreasing(X2)
        /\ NonDecreasing(Take(P3, iP3)) /\ NonDecreasing(X3)

C22_Witness ==
    /\ pc = "match"
    /\ Len(P2) >= 2 /\ ~NonDecreasing(P2)
    /\ Len(P3) >= 2 /\ ~NonDecreasing(P3)

\* the points of the two families as the builders produced them
ShockPoints ==
    { [P |-> P2[i], u |-> u2[i], T |-> T2[i], rho |-> rho2[i], a |-> a2[i],
       U |-> Us[i]] : i \in 1..Len(P2) }
ExpansionPoints ==
    { [P |-> P3[i], u |-> u3[i], T |-> T3[i], rho |-> rho3[i], a |-> a3[i]]
        : i \in 1..Len(P3) }

\* the points of a family with pairwise distinct pressures, by rising pressure
ByPressure(points) ==
    [k \in 1..Cardinality(points) |->
        CHOOSE p \in points : Cardinality({q \in points : q.P < p.P}) = k - 1]

IsPermutation(idx, n) ==
    /\ Len(idx) = n
    /\ \A i \in 1..n : Cardinality({k \in 1..n : idx[k] = i}) = 1

\* the value at x of the interpolant through field f of the sorted points
Through(points, f, x) ==
    LET pts == ByPressure(points)
        n == Len(pts)
    IN  PchipEval([k \in 1..n |-> Ratio(pts[k].P)], [k \in 1..n |-> f[pts[k]]], x)

\* C23: the lists of a family have one length and its sort index is a
\* permutation of their positions, so every original point appears exactly
\* once; and every reported value is read from an interpolant through the
\* original points, fields unchanged, ordered by pressure on one grid.
C23_OnePermutationPerCurve ==
    /\ pc \in {"match", "done"} =>
          /\ \A xs \in {Us, u2, T2, rho2, a2} : Len(xs) = Len(P2)
          /\ \A xs \in {u3, T3, rho3, a3} : Len(xs) = Len(P3)
          /\ IsPermutation(iP2, Len(P2))
          /\ IsPermutation(iP3, Len(P3))
    /\ pc = "done" =>
          LET x == result.P_contact
              shock(f) == Through(ShockPoints, f, x)
              expansion(f) == Through(ExpansionPoints, f, x)
          IN  /\ Cardinality(ShockPoints) = Len(P2)
              /\ Cardinality(ExpansionPoints) = Len(P3)
              /\ result.U_shock = shock([p \in ShockPoints |-> p.U])
              /\ result.u2_contact = shock([p \in ShockPoints |-> p.u])
              /\ result.T2_contact = shock([p \in ShockPoints |-> p.T])
              /\ result.a2_contact = shock([p \in ShockPoints |-> p.a])
              /\ result.rho2_contact = shock([p \in ShockPoints |-> p.rho])
              /\ result.u3_contact = expansion([p \in ExpansionPoints |-> p.u])
              /\ result.T3_contact = expansion([p \in ExpansionPoints |-> p.T])
              /\ result.a3_contact = expansion([p \in ExpansionPoints |-> p.a])
              /\ result.rho3_contact = expansion([p \in ExpansionPoints |-> p.rho])

C23_Witness ==
    /\ pc = "done"
    /\ ~NonDecreasing(P2) /\ ~NonDecreasing(P3)
    /\ result.T2_contact # PchipEval(X2, T2, result.P_contact)
    /\ result.T3_contact # PchipEval(X3, T3, result.P_contact)

\* C24: the gas handle that held the driver's initial state still holds the
\* pressure, density, temperature and entropy recorded from it at the start
\* of the expansion, during and after the march.
C24_DriverStateKept ==
    pc \in {"march", "match", "done"} =>
        /\ driver_gas.P = P3[1]
        /\ driver_gas.rho = rho3[1]
        /\ driver_gas.T = T3[1]
        /\ driver_gas.s = S4

InRange(xs, x) == xs[1] <= x /\ x <= xs[Len(xs)]

\* C25: when the minimiser runs, the bracket [pmin, pmax] lies inside the
\* sampled P/P1 range of the shock family and of the expansion family, so
\* every point at which the minimiser evaluates the interpolants lies inside
\* both ranges.
C25_BracketInsideBothRanges ==
    (pc = "match" /\ ~MatchRaises) =>
        /\ X2[1] <= pmin
        /\ pmax <= X3[Len(X3)]
        /\ \A x \in Candidates : InRange(X2, x) /\ InRange(X3, x)

Distinct(xs) == \A i, j \in 1..Len(xs) : i # j => xs[i] # xs[j]

\* C26: the march finds a target velocity (the shock family is not empty),
\* and when matching starts each family holds at least two samples with
\* pairwise distinct pressures: the sweep made at least two points and the
\* body of the march loop ran at least once.
C26_TwoDistinctSamplesPerCurve ==
    /\ pc = "march" => Len(u2) >= 1
    /\ pc = "match" =>
          /\ nsteps(a1) >= 2
          /\ Len(P2) >= 2 /\ Distinct(P2)
          /\ Len(P3) >= 2 /\ Distinct(P3)

\* a step in which process_request has been executed for a top-level request
TopLevelCall == calls' = calls + 1 \/ (mainPc' = "exited" /\ stdin'.text = "json")
TopLevelRequest == IF calls' = calls + 1 THEN request' ELSE stdin'.value

\* a batch request whose "requests" key holds a list
IsBatch(req) ==
    /\ req.type = "object"
    /\ req.function = "batch"
    /\ req.calc = "ok"

\* C27: one top-level request makes the bridge process at most BatchLimit
\* sub-requests, whether or not items of a batch are batches themselves; a
\* batch of more than BatchLimit items is rejected with no item processed.
C27_BatchLimitPerRequest ==
    [][ TopLevelCall =>
          /\ (invocations' - invocations) - 1 <= BatchLimit
          /\ (IsBatch(TopLevelRequest) /\ Len(TopLevelRequest.requests) > BatchLimit)
                => invocations' - invocations = 1 ]_vars

\* the counters with which item i of a batch is reached, when the first item
\* is reached with cc and ec
RECURSIVE CountersBefore(_, _, _, _, _)
CountersBefore(items, i, cc, ec, cantera) ==
    IF i = 1 THEN [cc |-> cc, ec |-> ec]
    ELSE LET c == CountersBefore(items, i - 1, cc, ec, cantera)
             r == process_request(items[i - 1], c.cc, c.ec, cantera)
         IN  [cc |-> r.cc, ec |-> r.ec]

\* resp answers the batch req, taken up with the counters at cc and ec: one
\* entry per item, entry i being what process_request makes of item i when
\* the loop reaches it, or the error entry of index i - 1 when it raises
BatchAnswered(req, resp, cc, ec, cantera) ==
    LET items == req.requests
        entries == resp.result.batch_results
    IN  /\ resp.success
        /\ Len(entries) = Len(items)
        /\ \A i \in 1..Len(items) :
              LET c == CountersBefore(items, i, cc + 1, ec, cantera)
                  r == process_request(items[i], c.cc, c.ec, cantera)
              IN  IF r.raised = "none"
                  THEN entries[i] = r.response
                  ELSE /\ ~entries[i].success
                       /\ entries[i].metadata = [batch_index |-> i - 1]

\* C28: a batch of at most BatchLimit items is answered with one entry per
\* item, in the order of the items, entry i being the response to item i; an
\* item that fails gives an entry with success = false, and the entries of
\* the items before and after it are those of their own items.
C28_OneEntryPerItem ==
    [][ (TopLevelCall /\ IsBatch(TopLevelRequest)
            /\ Len(TopLevelRequest.requests) <= BatchLimit) =>
          IF calls' = calls + 1
          THEN /\ raised' = "none"
               /\ BatchAnswered(request', response', calculation_count,
                                error_count, CANTERA_AVAILABLE)
          ELSE /\ exitStatus' = 0
               /\ BatchAnswered(stdin'.value, stdout'[Len(stdout')], 0, 0,
                                CANTERA_AVAILABLE) ]_vars

C28_Witness ==
    /\ calls = 2
    /\ IsBatch(request)
    /\ Len(request.requests) = 2
    /\ response.success
    /\ ~response.result.batch_results[1].success
    /\ response.result.batch_results[2].success
    /\ response.result.batch_results[2].metadata.calculation_count = calculation_count

\* the requests, among req and the items processed for it, that are not a
\* JSON object with a "function" key
RECURSIVE Malformed(_)
Malformed(req) ==
    IF req.type # "object" THEN 1
    ELSE IF req.function = Absent THEN 1
    ELSE IF IsBatch(req) /\ Len(req.requests) <= BatchLimit
    THEN LET RECURSIVE sum(_)
             sum(i) == IF i = 0 THEN 0 ELSE sum(i - 1) + Malformed(req.requests[i])
         IN  sum(Len(req.requests))
    ELSE 0

\* C29 as stated: calculation_count is the number of requests processed,
\* error_count the number of them that failed, and error_count never exceeds
\* calculation_count.
C29_CountersCountRequests ==
    /\ calculation_count = invocations
    /\ error_count = failures
    /\ error_count <= calculation_count

\* C29: calculation_count counts the processed requests that are JSON
\* objects with a "function" key, so it never exceeds the number of requests
\* processed; error_count is the number of processed requests that did not
\* end with a success response, so it never exceeds the number of requests
\* processed either; and no process_request call lowers a counter.
C29_CountersCountWellFormed ==
    /\ [](/\ error_count = failures
          /\ calculation_count <= invocations
          /\ error_count <= invocations)
    /\ [][ TopLevelCall =>
            /\ (invocations' - invocations) - Malformed(TopLevelRequest)
                 = calculation_count' - (IF calls' = calls + 1
                                         THEN calculation_count ELSE 0)
            /\ calls' = calls + 1 =>
                 /\ calculation_count' >= calculation_count
                 /\ error_count' >= error_count ]_vars

C29_Witness ==
    /\ calls = 2
    /\ calculation_count >= 1
    /\ error_count > calculation_count
    /\ invocations > calculation_count
    /\ failures < invocations

\* C30: the march along the isentrope never reads or writes an array element
\* outside 0 .. npoints-1: its index stays below npoints and no IndexError
\* is raised, also when the velocity is positive at every step.
C30_IsentropeIndexInBounds ==
    isentrope.pc \in {"march", "plateau", "failed"} =>
        /\ isentrope.i <= npoints - 1
        /\ isentrope.error # "IndexError"

====
